---- MODULE Spec2Model ----
(***************************************************************************)
(* A model of the decoder-only Transformer notebook                        *)
(* src/posts/transformers/index.ipynb: the attention head, the block       *)
(* stack, TextGenerationModel (construction, forward, generate), the       *)
(* training loop with estimate_loss, and the generation cell.              *)
(*                                                                         *)
(* Numbers.  Tensors are sequences of rows of integers (one batch row;     *)
(* the batch rows of the source are independent of each other).  Real      *)
(* arithmetic is held in integer fixed point: a division rounds toward     *)
(* minus infinity where a float rounds to nearest, exp is taken to base 2  *)
(* and underflows to 0 below 2^-ExpClip, as a float exp underflows.        *)
(* Attention weights are kept as exact fractions <<numerator,              *)
(* denominator>>.  Learned parameters are small integers given by Param,   *)
(* selected by the weight version wsel that optimizer.step() changes.      *)
(* torch's default generator is a linear congruential generator over       *)
(* 0..RngMod-1; dropout and multinomial both draw from it.                 *)
(***************************************************************************)
EXTENDS Integers, Sequences, FiniteSets, TLC

\* ---- bounds of the model ----
VocabSize == 4       \* the tokenizer's vocabulary size (12731 in the notebook's run)
MaxSeqLen == 2       \* seq_len is drawn from 1..MaxSeqLen
NumLayers == 1       \* n_layer, the depth of the block stack
MaxSeedLen == 2      \* generate is called on seeds of length 1..MaxSeedLen
MaxNewTokens == 2    \* max_new_tokens is drawn from 0..MaxNewTokens
MaxIters == 3        \* max_iters of the training loop
EvalInterval == 2    \* eval_interval
EvalIters == 1       \* eval_iters
DataLen == 40        \* len(data), the tokenised corpus
MaxHeadT == 4        \* Head.forward is applied to inputs of 1..MaxHeadT rows
BatchSize == 2       \* B, the rows of a batch handed to forward directly
MaxCausalT == 3      \* two inputs of 1..MaxCausalT tokens are run side by side

\* The (d_model, n_head) pairs the model is built with: head_size =
\* d_model // n_head is exact for the first three, 0 for <<2, 6>> (the
\* notebook's n_head = 6 with the d_model = 2 its cells leave behind) and
\* 1 for <<3, 2>> (inexact, as the notebook's 512 // 6 = 85 is).
HeadConfigs == {<<2, 1>>, <<2, 2>>, <<3, 3>>, <<2, 6>>, <<3, 2>>}

\* The rows Head.forward's inputs are made of, of width HeadWidth.
HeadRows == {<<0, 0>>, <<1, -1>>, <<-1, 1>>, <<1, 1>>}

\* The generator states the compared generation runs are seeded with.
GenSeeds == {0, 12, 19}

Runs == {1, 2}

\* ---- program constants ----
DropNum == 1         \* dropout = 0.1 = DropNum / DropDen
DropDen == 10
SosId == 2           \* the id of "[SOS]", the third special token
EosId == 3           \* the id of "[EOS]", the fourth special token
HeadWidth == 2       \* d_model as the masking cells leave it
DemoSeqLen == 4      \* seq_len as the masking cells leave it
CfgSeqLen == 128     \* seq_len of the configuration cell
CfgDModel == 512     \* d_model of the configuration cell
NHead == 6           \* n_head
NLayer == 8          \* n_layer

\* ---- numeric model ----
ExpClip == 6         \* exp underflows to 0 below 2^-ExpClip
RngMod == 32         \* states of the generator
SampleQuant == 4     \* a uniform draw is one of SampleQuant quantiles
NegInf == -1000000   \* float('-inf')

\* A row and a matrix as concrete tuples (a tensor holds its values).
Vec(f) == f \o <<>>

RECURSIVE SumSeq(_)
SumSeq(s) == IF s = <<>> THEN 0 ELSE s[1] + SumSeq(Tail(s))

RECURSIVE MaxSeq(_)
MaxSeq(s) == IF Len(s) = 1 THEN s[1]
             ELSE LET m == MaxSeq(Tail(s)) IN IF s[1] > m THEN s[1] ELSE m

RECURSIVE Pow2(_)
Pow2(n) == IF n <= 0 THEN 1 ELSE 2 * Pow2(n - 1)

RECURSIVE Gcd(_, _)
Gcd(a, b) == IF b = 0 THEN a ELSE Gcd(b, a % b)

Sgn(v) == IF v > 0 THEN 1 ELSE IF v < 0 THEN -1 ELSE 0

\* x ** -0.5 is a division by the integer square root of x (x >= 1).
Isqrt(x) == CHOOSE r \in 1..x : r * r <= x /\ (r + 1) * (r + 1) > x

\* exp(d) for d <= 0, in units of 2^-ExpClip; exp(-inf) = 0.
Exp2(d) == IF d < -ExpClip THEN 0 ELSE Pow2(ExpClip + d)

\* Fractions <<n, d>> with d > 0, kept in lowest terms.
RatNorm(n, d) == LET g == Gcd(IF n < 0 THEN -n ELSE n, d)
                 IN  IF n = 0 THEN <<0, 1>> ELSE <<n \div g, d \div g>>
RatAdd(p, q) == RatNorm(p[1] * q[2] + q[1] * p[2], p[2] * q[2])

RECURSIVE RatSum(_)
RatSum(s) == IF s = <<>> THEN <<0, 1>> ELSE RatAdd(s[1], RatSum(Tail(s)))

\* ---- the random generator (torch's default generator) ----
RngNext(s) == (5 * s + 3) % RngMod

RECURSIVE Rnd(_, _)
\* the generator's state after n draws from state s (s is one of the
\* generator's states; the draws are taken half by half)
Rnd(s, n) == IF n = 0 \/ s \notin 0..(RngMod - 1) THEN s
             ELSE IF n = 1 THEN RngNext(s)
             ELSE Rnd(Rnd(s, n \div 2), n - n \div 2)

\* nn.Dropout's Bernoulli mask: the k-th draw after state s keeps the element
\* with probability 1 - dropout.
Keep(s, k) == (Rnd(s, k) % DropDen) >= DropNum

\* nn.Dropout on one integer element: identity in evaluation mode; in
\* training mode zero, or the element scaled by 1 / (1 - dropout).
DropoutElem(v, training, s, k) ==
    IF ~training THEN v
    ELSE IF Keep(s, k) THEN (v * DropDen) \div (DropDen - DropNum) ELSE 0

\* The matrix with the elements of f: a tensor of concrete rows.
Mat(f) == Vec([i \in DOMAIN f |-> Vec(f[i])])

\* nn.Dropout on a T x n matrix; element (i, j) takes draw off + (i-1)*n + j.
Dropout(x, n, training, s, off) ==
    Mat([i \in 1..Len(x) |->
        [j \in 1..n |-> DropoutElem(x[i][j], training, s, off + (i - 1) * n + j)]])

\* ---- learned parameters ----
\* Entry (a, b) of the parameter tensor `tag` under weight version w.
Param(tag, w, a, b) == ((tag + w + a * a + 2 * b + a * b * (1 + w)) % 3) - 1

\* nn.Linear(nin, nout): y = x W^T (+ bias); it accepts rows of width nin only.
Linear(x, nin, nout, tag, w, bias) ==
    Mat([i \in 1..Len(x) |->
        [j \in 1..nout |-> SumSeq(Vec([c \in 1..nin |-> x[i][c] * Param(tag, w, c, j)]))
                      + (IF bias THEN Param(tag + 1, w, 0, j) ELSE 0)]])

\* nn.LayerNorm over the last axis, row by row: each element centred on its
\* row's mean and normalised to unit scale (its sign; exact for width 2).
LayerNorm(x, n) ==
    Mat([i \in 1..Len(x) |-> [j \in 1..n |-> Sgn(n * x[i][j] - SumSeq(x[i]))]])

MatAdd(x, y, n) == Mat([i \in 1..Len(x) |-> [j \in 1..n |-> x[i][j] + y[i][j]]])

\* ---- Head (one head of self-attention) ----
\* As Tril, had the buffer been torch.ones(n, n): nothing is masked.
TrilOnes(n) == Mat([i \in 1..n |-> [j \in 1..n |-> 1]])

\* The buffer registered in Head.__init__: torch.tril(torch.ones(n, n)).
Tril(n) == Mat([i \in 1..n |-> [j \in 1..n |-> IF j <= i THEN 1 ELSE 0]])

\* The dimension whose inverse square root scales the scores: Head.forward
\* unpacks x.shape into (batch_size, seq_len, d_model), so it is the width of
\* the head's input x.
ScaleDim(xwidth, hs) == xwidth

\* q @ k.transpose(-2,-1) * d_model**-0.5, for q, k of width hs.
Scores(q, k, hs, dim) ==
    Mat([i \in 1..Len(q) |->
        [j \in 1..Len(k) |-> SumSeq(Vec([c \in 1..hs |-> q[i][c] * k[j][c]])) \div Isqrt(dim)]])

\* As MaskedFill, had the mask been built with torch.triu: the entries below
\* the diagonal are filled instead of those above it.
MaskedFillUpper(wei, tril) ==
    Mat([i \in 1..Len(wei) |->
        [j \in 1..Len(wei) |-> IF tril[j][i] = 0 THEN NegInf ELSE wei[i][j]]])

\* wei.masked_fill(self.tril[:T, :T] == 0, float('-inf'))
MaskedFill(wei, tril) ==
    Mat([i \in 1..Len(wei) |->
        [j \in 1..Len(wei) |-> IF tril[i][j] = 0 THEN NegInf ELSE wei[i][j]]])

\* exp of the entries of one axis, the axis' maximum m subtracted first.
ExpRow(r, m) == Vec([j \in 1..Len(r) |-> IF r[j] = NegInf THEN 0 ELSE Exp2(r[j] - m)])

\* The entries e of one axis divided by their sum z.
Normalise(e, z) == Vec([j \in 1..Len(e) |-> RatNorm(e[j], z)])

\* F.softmax of one axis.
SoftmaxRow(r) == Normalise(ExpRow(r, MaxSeq(r)), SumSeq(ExpRow(r, MaxSeq(r))))

\* F.softmax(wei, dim=-1): every row is normalised by its own sum.
Softmax(wei) == Vec([i \in 1..Len(wei) |-> SoftmaxRow(wei[i])])

\* As DropoutWei, had nn.Dropout ignored the module's mode and drawn its
\* mask in evaluation mode too.
DropoutWeiAlways(wei, training, s, off) ==
    Mat([i \in 1..Len(wei) |->
        [j \in 1..Len(wei) |->
            IF Keep(s, off + (i - 1) * Len(wei) + j)
            THEN RatNorm(wei[i][j][1] * DropDen, wei[i][j][2] * (DropDen - DropNum))
            ELSE <<0, 1>>]])

\* self.dropout(wei) on the fractions of the weight matrix.
DropoutWei(wei, training, s, off) ==
    Mat([i \in 1..Len(wei) |->
        [j \in 1..Len(wei) |-> IF ~training THEN wei[i][j]
            ELSE IF Keep(s, off + (i - 1) * Len(wei) + j)
                 THEN RatNorm(wei[i][j][1] * DropDen, wei[i][j][2] * (DropDen - DropNum))
                 ELSE <<0, 1>>]])

\* A fraction rounded into fixed point.
Floor(r) == r[1] \div r[2]

\* wei @ v, rounded into fixed point.
Aggregate(wei, v, hs) ==
    Mat([i \in 1..Len(wei) |->
        [c \in 1..hs |-> Floor(RatSum(Vec([j \in 1..Len(v) |->
                            RatNorm(wei[i][j][1] * v[j][c], wei[i][j][2])])))]])

\* The normalised weight matrix of Head.forward (mask, then softmax), before
\* dropout: head h of layer l, on input x of width C.
HeadWei(x, C, hs, triln, l, h, w) ==
    Softmax(MaskedFill(Scores(Linear(x, C, hs, 100 * l + 10 * h + 2, w, FALSE),
                              Linear(x, C, hs, 100 * l + 10 * h + 1, w, FALSE),
                              hs, ScaleDim(C, hs)),
                       Tril(triln)))

\* Head.forward: the (T, hs) output of head h of layer l.
HeadForward(x, C, hs, triln, l, h, w, training, s, off) ==
    Aggregate(DropoutWei(HeadWei(x, C, hs, triln, l, h, w), training, s, off),
              Linear(x, C, hs, 100 * l + 10 * h + 3, w, FALSE), hs)

\* ---- MultiHeadAttention ----
RECURSIVE Cat(_, _, _)
\* torch.cat([h(x) for h in self.heads], dim=-1): row i of heads 1..n.
Cat(outs, n, i) == IF n = 0 THEN <<>> ELSE Cat(outs, n - 1, i) \o outs[n][i]

\* The number of generator draws one head takes in training mode.
HeadDraws(T) == T * T

\* [h(x) for h in self.heads]
HeadOutputs(x, m, l, s, off) ==
    Vec([h \in 1..m.n_head |->
            HeadForward(x, m.d_model, m.head_size, m.tril_n, l, h,
                        m.wsel, m.training, s, off + (h - 1) * HeadDraws(Len(x)))])

CatHeads(outs, n, T) == Vec([i \in 1..T |-> Cat(outs, n, i)])

\* MultiHeadAttention.forward for a model record m, layer l.
MultiHeadAttention(x, m, l, s, off) ==
    Dropout(Linear(CatHeads(HeadOutputs(x, m, l, s, off), m.n_head, Len(x)),
                   m.d_model, m.d_model, 100 * l + 4, m.wsel, TRUE),
            m.d_model, m.training, s, off + m.n_head * HeadDraws(Len(x)))

\* ---- FeedFoward ----
ReLU(x, n) == Mat([i \in 1..Len(x) |-> [j \in 1..n |-> IF x[i][j] > 0 THEN x[i][j] ELSE 0]])

FeedFoward(x, m, l, s, off) ==
    Dropout(Linear(ReLU(Linear(x, m.d_model, 4 * m.d_model, 100 * l + 6, m.wsel, TRUE),
                        4 * m.d_model),
                   4 * m.d_model, m.d_model, 100 * l + 8, m.wsel, TRUE),
            m.d_model, m.training, s, off)

\* ---- Block ----
\* The number of generator draws one block takes in training mode.
BlockDraws(m, T) == m.n_head * HeadDraws(T) + 2 * T * m.d_model

\* x = x + self.ffwd(self.ln2(x)); nothing to do for an input of no rows.
BlockFfwd(x1, m, l, s, off) ==
    IF x1 = <<>> THEN x1
    ELSE MatAdd(x1, FeedFoward(LayerNorm(x1, m.d_model), m, l, s, off), m.d_model)

\* Block.forward: x = x + self.sa(self.ln1(x)), then the feed-forward half.
Block(x, m, l, s, off) ==
    IF x = <<>> THEN x
    ELSE BlockFfwd(MatAdd(x, MultiHeadAttention(LayerNorm(x, m.d_model), m, l, s, off),
                          m.d_model),
                   m, l, s, off + m.n_head * HeadDraws(Len(x)) + Len(x) * m.d_model)

RECURSIVE Blocks(_, _, _, _)
\* nn.Sequential of the first l blocks.
Blocks(x, m, l, s) ==
    IF l = 0 THEN x
    ELSE Block(Blocks(x, m, l - 1, s), m, l, s, (l - 1) * BlockDraws(m, Len(x)))

\* ---- TextGenerationModel ----
NoModel == [built |-> FALSE]

\* TextGenerationModel.__init__ under the globals (vs, sl, dm, nh, nl):
\* the embedding tables, n_layer Blocks (Block.__init__ computes head_size
\* by floor division), ln_f and lm_head.  A new nn.Module is in training mode.
NewModel(vs, sl, dm, nh, nl) ==
    [built |-> TRUE, vocab |-> vs, pos_rows |-> sl, tril_n |-> sl,
     d_model |-> dm, n_head |-> nh, head_size |-> dm \div nh, n_layer |-> nl,
     training |-> TRUE, wsel |-> 0]

\* As ForwardError, had the token table taken any id (the lookup wrapping
\* around the table instead of checking its index).
ForwardErrorWrapIds(m, idx) ==
    IF Len(idx) > m.pos_rows THEN "IndexError"
    ELSE IF m.n_layer >= 1 /\ m.n_head * m.head_size # m.d_model THEN "RuntimeError"
    ELSE "none"

\* The exception TextGenerationModel.forward raises on idx, or "none":
\* an id outside the token table, a position outside the position table, the
\* concatenated heads not matching proj's in_features.
ForwardError(m, idx) ==
    IF \E p \in 1..Len(idx) : idx[p] < 0 \/ idx[p] >= m.vocab THEN "IndexError"
    ELSE IF Len(idx) > m.pos_rows THEN "IndexError"
    ELSE IF m.n_layer >= 1 /\ m.n_head * m.head_size # m.d_model THEN "RuntimeError"
    ELSE "none"

\* tok_emb + pos_emb
Embed(m, idx) ==
    Mat([i \in 1..Len(idx) |->
        [c \in 1..m.d_model |-> Param(1, m.wsel, idx[i], c) + Param(2, m.wsel, i - 1, c)]])

\* The (T, vocab_size) logits of TextGenerationModel.forward.
Logits(m, idx, s) ==
    Linear(LayerNorm(Blocks(Embed(m, idx), m, m.n_layer, s), m.d_model),
           m.d_model, m.vocab, 3, m.wsel, TRUE)

\* The generator draws one forward pass takes.
ForwardDraws(m, T) == IF m.training THEN m.n_layer * BlockDraws(m, T) ELSE 0

RECURSIVE View(_, _)
\* t.view(...) of the first b batch rows of t: the rows one after another.
View(t, b) == IF b = 0 THEN <<>> ELSE View(t, b - 1) \o t[b]

\* logits.view(batch_size*seq_len, d_model): row (b, t) becomes row b*T + t.
ViewLogits(logits) == View(logits, Len(logits))

\* As ViewTargets, had the targets been flattened column by column
\* (targets.t().reshape(-1)): entry (b, t) becomes entry t*B + b.
ViewTargetsByColumn(targets) ==
    View(Vec([t \in 1..Len(targets[1]) |->
                Vec([b \in 1..Len(targets) |-> targets[b][t]])]), Len(targets[1]))

\* targets.view(batch_size*seq_len): entry (b, t) becomes entry b*T + t.
ViewTargets(targets) == View(targets, Len(targets))

RECURSIVE ILog2(_)
\* The integer part of log2(n), n >= 1.
ILog2(n) == IF n <= 1 THEN 0 ELSE 1 + ILog2(n \div 2)

\* -log softmax(row)[t] of one row of logits against the target id t (to
\* base 2, in the integers): log of the sum of the exponentials, minus row[t].
Nll(row, t) ==
    MaxSeq(row) + ILog2(SumSeq(ExpRow(row, MaxSeq(row)))) - ExpClip - row[t + 1]

\* F.cross_entropy(logits, targets) on (N, V) logits and (N,) targets: the
\* mean over the N rows of each row's loss against its own target.
CrossEntropy(logits, targets) ==
    SumSeq(Vec([r \in 1..Len(logits) |-> Nll(logits[r], targets[r])])) \div Len(logits)

\* What TextGenerationModel.forward returns for the (B, T, V) logits: without
\* targets (<<>> is None) the logits as they are and no loss; with targets
\* the flattened logits and the loss.
ForwardResult(logits, targets) ==
    IF targets = <<>>
    THEN [err |-> "none", logits |-> logits, loss |-> <<>>]
    ELSE [err |-> "none", logits |-> ViewLogits(logits),
          loss |-> <<CrossEntropy(ViewLogits(logits), ViewTargets(targets))>>]

\* The batch rows of idx on which the forward pass raises.
BadRows(m, idx) == {b \in 1..Len(idx) : ForwardError(m, idx[b]) # "none"}

\* TextGenerationModel.forward(idx, targets) on a (B, T) batch idx, from the
\* generator state s: the exception it raises, or (logits, loss).  The two
\* embedding lookups take the whole batch before any block runs.
Forward(m, idx, targets, s) ==
    IF BadRows(m, idx) # {}
    THEN [err |-> IF \E b \in BadRows(m, idx) : ForwardError(m, idx[b]) = "IndexError"
                  THEN "IndexError" ELSE "RuntimeError"]
    ELSE ForwardResult(
            Vec([b \in 1..Len(idx) |->
                    Logits(m, idx[b], Rnd(s, (b - 1) * ForwardDraws(m, Len(idx[b]))))]),
            targets)

\* As LastN, had the slice been idx[:, :n]: the first n ids.
FirstN(idx, n) == IF Len(idx) <= n THEN idx ELSE SubSeq(idx, 1, n)

\* idx[:, -n:], the last n ids (all of them when there are fewer).
LastN(idx, n) ==
    IF Len(idx) <= n THEN idx ELSE SubSeq(idx, Len(idx) - n + 1, Len(idx))

\* F.softmax(logits, dim=-1) of one row.
Probs(row) == SoftmaxRow(row)

RECURSIVE Cdf(_, _)
Cdf(probs, j) == IF j = 0 THEN <<0, 1>> ELSE RatAdd(Cdf(probs, j - 1), probs[j])

\* As Multinomial, had the sampled position been counted from 1.
MultinomialOneBased(probs, q) ==
    CHOOSE j \in 1..Len(probs) :
        /\ Cdf(probs, j)[1] * SampleQuant > q * Cdf(probs, j)[2]
        /\ \A i \in 1..(j - 1) :
              Cdf(probs, i)[1] * SampleQuant <= q * Cdf(probs, i)[2]

\* torch.multinomial(probs, num_samples=1) under the uniform quantile q:
\* the first id whose cumulative probability exceeds q / SampleQuant.
Multinomial(probs, q) ==
    (CHOOSE j \in 1..Len(probs) :
        /\ Cdf(probs, j)[1] * SampleQuant > q * Cdf(probs, j)[2]
        /\ \A i \in 1..(j - 1) :
              Cdf(probs, i)[1] * SampleQuant <= q * Cdf(probs, i)[2]) - 1

\* The quantile of the uniform draw the generator state s yields.
Quantile(s) == s \div (RngMod \div SampleQuant)

\* ---- the corpus and get_batch ----
\* data: the tokenised corpus, ids in [0, vocab_size).
Data == Vec([p \in 1..DataLen |-> (p * p + p \div 3) % VocabSize])

\* n = int(0.9*len(data)); train_data = data[:n]; val_data = data[n:]
SplitData(split) ==
    LET n == (9 * DataLen) \div 10
    IN  IF split = "train" THEN SubSeq(Data, 1, n) ELSE SubSeq(Data, n + 1, DataLen)

\* data[lo:hi] for 0 <= lo: a Python slice stops at the end of the data.
PySlice(d, lo, hi) == SubSeq(d, lo + 1, IF hi < Len(d) THEN hi ELSE Len(d))

\* As RandintHigh, had the bound been len(data) - seq_len + 1.
RandintHighInclusive(n, sl) == n - sl + 1

\* The exclusive upper bound of the start indices: len(data) - seq_len.
RandintHigh(n, sl) == n - sl

\* get_batch(split) under generator state s and the global seq_len sl:
\* torch.randint(len(data) - seq_len, ...) raises when its bound is not positive.
GetBatch(split, sl, s) ==
    LET d == SplitData(split)
        high == RandintHigh(Len(d), sl)
        i == RngNext(s) % high
    IN  IF high <= 0 THEN [err |-> "RuntimeError"]
        ELSE [err |-> "none", i |-> i,
              x |-> PySlice(d, i, i + sl), y |-> PySlice(d, i + 1, i + sl + 1)]

\* ---- state ----
VARIABLES
    vocab_size, seq_len, d_model, n_head, n_layer,  \* the notebook's globals
    model,            \* the TextGenerationModel object (NoModel before it is built)
    pc,               \* where the session is
    iter,             \* the training loop's iter
    est,              \* estimate_loss: [split, k]
    gen,              \* state of torch's default generator
    fwd,              \* the last forward pass: its caller, T, mode, whether it had targets
    err,              \* the exception that ended the session, or "none"
    seed,             \* generate's argument idx
    max_new_tokens,   \* generate's argument max_new_tokens
    idx,              \* generate's working sequence, per compared run
    iters,            \* loop iterations of generate completed
    idx_cond,         \* the sequence last handed to the forward pass, per run
    rseed,            \* the state each compared run's generator was seeded with
    rng,              \* the generator state of each compared run
    draw,             \* the quantile each run's last sampling step drew
    hpc,              \* the Head harness: "idle", "call" or "returned"
    hin,              \* Head's arguments: [x, hs, tril_n, w, training, s]
    hwei,             \* the normalised weights Head.forward computed (before dropout)
    hout,             \* what Head.forward returned
    fpc,              \* a direct call of the forward pass: "idle", "call", "returned", "raised"
    fin,              \* its arguments: [m, idx, targets, s]
    fout,             \* what it returned: [logits, loss], or the exception [err]
    cpc,              \* the forward pass on two inputs side by side: "idle", "call", "returned"
    cin,              \* the model and the two token sequences: [m, a, b]
    cout,             \* every layer's output on each of the two inputs
    mpc,              \* MultiHeadAttention with its heads in any order: "idle", "heads", "joined"
    min,              \* its input, model and mode: [x, m, s]
    morder,           \* the heads evaluated so far, in the order they were evaluated
    mbuf,             \* the concatenated output under construction
    mgen,             \* the generator state the heads share
    bpc,              \* a call of get_batch: "idle", "call", "returned", "raised"
    bin,              \* the split, the global seq_len and the generator state: [split, sl, s]
    bout,             \* what get_batch returned: [i, x, y]
    cell,             \* the notebook run in document order: the cells run so far
    demo              \* the masking cells' tensors: [x, wei]

vars == <<vocab_size, seq_len, d_model, n_head, n_layer, model, pc, iter, est,
          gen, fwd, err, seed, max_new_tokens, idx, iters, idx_cond, rseed, rng,
          draw, hpc, hin, hwei, hout, fpc, fin, fout, cpc, cin, cout, mpc, min,
          morder, mbuf, mgen, bpc, bin, bout, cell, demo>>

globals == <<vocab_size, seq_len, d_model, n_head, n_layer>>
genvars == <<seed, max_new_tokens, idx, iters, idx_cond, rseed, rng, draw>>
headvars == <<hpc, hin, hwei, hout>>
sessionvars == <<globals, model, pc, iter, est, gen, fwd, err, genvars>>
fwdvars == <<fpc, fin, fout>>
causalvars == <<cpc, cin, cout>>
mhavars == <<mpc, min, morder, mbuf, mgen>>
batchvars == <<bpc, bin, bout>>
cellvars == <<cell, demo>>
callvars == <<fwdvars, causalvars, mhavars, batchvars, cellvars>>

\* The ids seeds are made of: [SOS] and [EOS].
SeedIds == {SosId, EosId}

Splits == <<"train", "val">>
NoFwd == [caller |-> "none", T |-> 0, training |-> FALSE, targets |-> FALSE]

SeqsUpTo(S, n) == UNION {[1..l -> S] : l \in 1..n}

\* torch's default generator starts from its fixed default seed.
DefaultSeed == 5

\* Nothing else is being run: no direct call of the forward pass, of the
\* layers, of get_batch, and no run of the cells in order.
FwdIdle == fpc = "idle" /\ fin = <<>> /\ fout = <<>>
CausalIdle == cpc = "idle" /\ cin = <<>> /\ cout = <<>>
MhaIdle == mpc = "idle" /\ min = <<>> /\ morder = <<>> /\ mbuf = <<>> /\ mgen = 0
BatchIdle == bpc = "idle" /\ bin = <<>> /\ bout = <<>>
CellsIdle == cell = <<>> /\ demo = <<>>
CallsIdle == FwdIdle /\ CausalIdle /\ MhaIdle /\ BatchIdle /\ CellsIdle
HeadIdle == hpc = "idle" /\ hin = <<>> /\ hwei = <<>> /\ hout = <<>>

\* No model is built, no loop entered, generate not called.
SessionIdle ==
    /\ model = NoModel
    /\ pc = "new"
    /\ iter = 0
    /\ est = [split |-> 1, k |-> 0]
    /\ gen = DefaultSeed
    /\ fwd = NoFwd
    /\ err = "none"
    /\ seed = <<>>
    /\ max_new_tokens = 0
    /\ idx = [r \in Runs |-> <<>>]
    /\ iters = 0
    /\ idx_cond = [r \in Runs |-> <<>>]
    /\ rseed = [r \in Runs |-> 0]
    /\ rng = [r \in Runs |-> 0]
    /\ draw = [r \in Runs |-> 0]

\* The session before it begins, under the global seq_len = sl.
SessionRest(sl) ==
    /\ vocab_size = VocabSize
    /\ seq_len = sl
    /\ d_model = HeadWidth
    /\ n_head = 1
    /\ n_layer = NumLayers
    /\ SessionIdle

Init ==
    /\ vocab_size = VocabSize
    /\ seq_len \in 1..MaxSeqLen
    /\ \E hc \in HeadConfigs : d_model = hc[1] /\ n_head = hc[2]
    /\ n_layer = NumLayers
    /\ model = NoModel
    /\ pc = "new"
    /\ iter = 0
    /\ est = [split |-> 1, k |-> 0]
    /\ gen = DefaultSeed
    /\ fwd = NoFwd
    /\ err = "none"
    /\ seed = <<>>
    /\ max_new_tokens = 0
    /\ idx = [r \in Runs |-> <<>>]
    /\ iters = 0
    /\ idx_cond = [r \in Runs |-> <<>>]
    /\ rseed = [r \in Runs |-> 0]
    /\ rng = [r \in Runs |-> 0]
    /\ draw = [r \in Runs |-> 0]
    /\ hpc = "idle"
    /\ hin = <<>>
    /\ hwei = <<>>
    /\ hout = <<>>
    /\ CallsIdle

\* model = TextGenerationModel(); m = model.to(device)
Construct ==
    /\ pc = "new"
    /\ model' = NewModel(vocab_size, seq_len, d_model, n_head, n_layer)
    /\ pc' = "loop"
    /\ iter' = 0
    /\ UNCHANGED <<headvars, callvars, globals, est, gen, fwd, err, genvars>>

EvalDue(i) == i % EvalInterval = 0 \/ i = MaxIters - 1

\* estimate_loss() is entered: model.eval()
EstimateBegin ==
    /\ pc = "loop" /\ iter < MaxIters /\ EvalDue(iter)
    /\ model' = [model EXCEPT !.training = FALSE]
    /\ est' = [split |-> 1, k |-> 0]
    /\ pc' = "estimate"
    /\ UNCHANGED <<headvars, callvars, globals, iter, gen, fwd, err, genvars>>

\* One pass of estimate_loss's inner loop: X, Y = get_batch(split);
\* logits, loss = model(X, Y).
EstimateForward ==
    /\ pc = "estimate" /\ est.split <= Len(Splits)
    /\ LET b == GetBatch(Splits[est.split], seq_len, gen)
           e == IF b.err # "none" THEN b.err ELSE ForwardError(model, b.x)
       IN  /\ gen' = IF b.err = "none"
                     THEN Rnd(gen, 1 + ForwardDraws(model, Len(b.x))) ELSE gen
           /\ IF e # "none"
              THEN /\ pc' = "raised" /\ err' = e
                   /\ UNCHANGED <<est, fwd>>
              ELSE /\ fwd' = [caller |-> "estimate_loss", T |-> Len(b.x),
                              training |-> model.training, targets |-> TRUE]
                   /\ est' = IF est.k + 1 = EvalIters
                             THEN [split |-> est.split + 1, k |-> 0]
                             ELSE [est EXCEPT !.k = @ + 1]
                   /\ UNCHANGED <<pc, err>>
    /\ UNCHANGED <<headvars, callvars, globals, model, iter, genvars>>

\* estimate_loss() returns: model.train()
EstimateEnd ==
    /\ pc = "estimate" /\ est.split > Len(Splits)
    /\ model' = [model EXCEPT !.training = TRUE]
    /\ pc' = "step"
    /\ UNCHANGED <<headvars, callvars, globals, iter, est, gen, fwd, err, genvars>>

\* The rest of one training iteration: get_batch('train'), the forward pass,
\* backward and optimizer.step(), which moves the weights to a new version.
TrainStep ==
    /\ \/ pc = "step"
       \/ pc = "loop" /\ iter < MaxIters /\ ~EvalDue(iter)
    /\ LET b == GetBatch("train", seq_len, gen)
           e == IF b.err # "none" THEN b.err ELSE ForwardError(model, b.x)
       IN  /\ gen' = IF b.err = "none"
                     THEN Rnd(gen, 1 + ForwardDraws(model, Len(b.x))) ELSE gen
           /\ IF e # "none"
              THEN /\ pc' = "raised" /\ err' = e
                   /\ UNCHANGED <<model, iter, fwd>>
              ELSE /\ fwd' = [caller |-> "train", T |-> Len(b.x),
                              training |-> model.training, targets |-> TRUE]
                   /\ model' = [model EXCEPT !.wsel = @ + 1]
                   /\ iter' = iter + 1
                   /\ pc' = "loop"
                   /\ UNCHANGED err
    /\ UNCHANGED <<headvars, callvars, globals, est, genvars>>

\* The training loop is over; the generation cell is next.
LoopExit ==
    /\ pc = "loop" /\ iter = MaxIters
    /\ pc' = "generate"
    /\ UNCHANGED <<headvars, callvars, globals, model, iter, est, gen, fwd, err, genvars>>

\* m.generate(context, max_new_tokens) is called, in each of the two
\* compared runs on the same arguments, each run's generator seeded (the
\* runs are interchangeable, so run 1 takes the smaller state).
GenerateCall ==
    /\ pc = "generate"
    /\ \E sd \in SeqsUpTo(SeedIds, MaxSeedLen), k \in 0..MaxNewTokens :
          /\ seed' = sd
          /\ max_new_tokens' = k
          /\ idx' = [r \in Runs |-> sd]
    /\ \E s \in [Runs -> GenSeeds] : s[1] <= s[2] /\ rseed' = s /\ rng' = s
    /\ iters' = 0
    /\ pc' = "gen"
    /\ UNCHANGED <<headvars, callvars, globals, model, iter, est, gen, fwd, err, idx_cond, draw>>

\* As GenIteration, had the sampled id been concatenated to idx_cond.
GenIterationCatCond(m, sl, cur, s) ==
    LET cond == LastN(cur, sl)
        e == ForwardError(m, cond)
        s1 == Rnd(s, ForwardDraws(m, Len(cond)) + 1)
    IN  IF e # "none" THEN [err |-> e, idx_cond |-> cond]
        ELSE [err |-> "none", idx_cond |-> cond, rng |-> s1,
              draw |-> Quantile(s1),
              idx |-> Append(cond, Multinomial(Probs(Logits(m, cond, s)[Len(cond)]),
                                               Quantile(s1)))]

\* One iteration of generate's loop in run r from sequence cur and generator
\* state s: truncate, forward, last row, softmax, multinomial, cat.
GenIteration(m, sl, cur, s) ==
    LET cond == LastN(cur, sl)
        e == ForwardError(m, cond)
        s1 == Rnd(s, ForwardDraws(m, Len(cond)) + 1)
        logits == Logits(m, cond, s)
        probs == Probs(logits[Len(cond)])
        idx_next == Multinomial(probs, Quantile(s1))
    IN  IF e # "none" THEN [err |-> e, idx_cond |-> cond]
        ELSE [err |-> "none", idx_cond |-> cond, rng |-> s1,
              draw |-> Quantile(s1), idx |-> Append(cur, idx_next)]

\* As LoopDone, had the loop been range(max_new_tokens - 1).
LoopDoneShort(it, k, cur) == it >= k - 1

\* As LoopDone, had the loop broken off once [EOS] was sampled.
LoopDoneEos(it, k, cur) ==
    it >= k \/ (it > 0 /\ \E r \in Runs : cur[r][Len(cur[r])] = EosId)

\* for _ in range(max_new_tokens): the loop is over after it iterations.
LoopDone(it, k, cur) == it >= k

\* The loop body's effect, given each run's iteration it[r].
GenerateBody(it) ==
    /\ idx_cond' = [r \in Runs |-> it[r].idx_cond]
    /\ fwd' = [caller |-> "generate", T |-> Len(it[1].idx_cond),
               training |-> model.training, targets |-> FALSE]
    /\ IF \E r \in Runs : it[r].err # "none"
       THEN /\ pc' = "raised"
            /\ err' = it[CHOOSE r \in Runs : it[r].err # "none"].err
            /\ UNCHANGED <<idx, iters, rng, draw>>
       ELSE /\ idx' = [r \in Runs |-> it[r].idx]
            /\ rng' = [r \in Runs |-> it[r].rng]
            /\ draw' = [r \in Runs |-> it[r].draw]
            /\ iters' = iters + 1
            /\ UNCHANGED <<pc, err>>

\* One pass of generate's loop, in both runs.
GenerateStep ==
    /\ pc = "gen" /\ ~LoopDone(iters, max_new_tokens, idx)
    /\ GenerateBody(Vec([r \in Runs |-> GenIteration(model, seq_len, idx[r], rng[r])]))
    /\ UNCHANGED <<headvars, callvars, globals, model, iter, est, gen, seed, max_new_tokens, rseed>>

\* return idx
GenerateReturn ==
    /\ pc = "gen" /\ LoopDone(iters, max_new_tokens, idx)
    /\ pc' = "done"
    /\ UNCHANGED <<headvars, callvars, globals, model, iter, est, gen, fwd, err, genvars>>

Next ==
    \/ Construct
    \/ EstimateBegin
    \/ EstimateForward
    \/ EstimateEnd
    \/ TrainStep
    \/ LoopExit
    \/ GenerateCall
    \/ GenerateStep
    \/ GenerateReturn

Spec == Init /\ [][Next]_vars

\* The control of generate's for statement, apart from the loop's body: an
\* iteration that is due is entered and counted.  Within Next its steps are
\* the steps of GenerateStep that complete an iteration.
LoopAdvance ==
    /\ pc = "gen" /\ ~LoopDone(iters, max_new_tokens, idx)
    /\ iters' = iters + 1

\* generate is straight-line code in one thread: once called, its loop keeps
\* stepping while an iteration is due and it returns when none is.
FairSpec == Spec /\ WF_iters(LoopAdvance) /\ WF_pc(GenerateReturn)

\* ---- Head.forward on its own ----
\* The session stays as it begins; Head.forward is applied to an input x of
\* T <= tril_n rows, for a head of any head_size Block.__init__ can compute.
HeadInit ==
    /\ vocab_size = VocabSize
    /\ seq_len = MaxHeadT
    /\ d_model = HeadWidth
    /\ n_head = 1
    /\ n_layer = NumLayers
    /\ model = NoModel
    /\ pc = "new"
    /\ iter = 0
    /\ est = [split |-> 1, k |-> 0]
    /\ gen = DefaultSeed
    /\ fwd = NoFwd
    /\ err = "none"
    /\ seed = <<>>
    /\ max_new_tokens = 0
    /\ idx = [r \in Runs |-> <<>>]
    /\ iters = 0
    /\ idx_cond = [r \in Runs |-> <<>>]
    /\ rseed = [r \in Runs |-> 0]
    /\ rng = [r \in Runs |-> 0]
    /\ draw = [r \in Runs |-> 0]
    /\ hpc = "call"
    /\ \E x \in SeqsUpTo(HeadRows, MaxHeadT), hs \in 0..HeadWidth, w \in 0..1,
          tr \in BOOLEAN, s \in GenSeeds :
          /\ ~tr => s = 0
          /\ hin = [x |-> x, hs |-> hs, tril_n |-> seq_len, w |-> w,
                    training |-> tr, s |-> s]
    /\ hwei = <<>>
    /\ hout = <<>>
    /\ CallsIdle

\* out = head(x)
HeadCall ==
    /\ hpc = "call"
    /\ hwei' = HeadWei(hin.x, HeadWidth, hin.hs, hin.tril_n, 1, 1, hin.w)
    /\ hout' = HeadForward(hin.x, HeadWidth, hin.hs, hin.tril_n, 1, 1, hin.w,
                           hin.training, hin.s, 0)
    /\ hpc' = "returned"
    /\ UNCHANGED <<hin, sessionvars, callvars>>

SpecHead == HeadInit /\ [][HeadCall]_vars

\* ---- TextGenerationModel.forward called directly ----
\* The rows of a batch: windows of T ids of the corpus, at starts drawn from
\* the generator state s.
Window(start, T) == SubSeq(Data, start + 1, start + T)
BatchStart(s, b, T) == Rnd(s, b) % (DataLen - T)
BatchRows(s, T) == Vec([b \in 1..BatchSize |-> Window(BatchStart(s, b, T), T)])
BatchTargets(s, T) == Vec([b \in 1..BatchSize |-> Window(BatchStart(s, b, T) + 1, T)])

\* idx with the last id of its last row replaced by id.
WithId(rows, id) ==
    [rows EXCEPT ![Len(rows)] = [@ EXCEPT ![Len(@)] = id]]

\* The ids a caller can pass in place of a token id: one below the table,
\* one past its end.
OutsideIds == {-1, VocabSize}

\* A model is built under the globals and put in either mode; forward is
\* called on a (BatchSize, T) batch with T up to one more than seq_len, with
\* or without targets, all ids inside the table or one of them outside.
ForwardInit ==
    /\ SessionRest(MaxSeqLen)
    /\ HeadIdle
    /\ CausalIdle /\ MhaIdle /\ BatchIdle /\ CellsIdle
    /\ fpc = "call"
    /\ \E hc \in HeadConfigs, tr \in BOOLEAN, T \in 1..(MaxSeqLen + 1),
          s \in 0..(RngMod - 1), tg \in BOOLEAN, id \in OutsideIds \cup {0} :
          fin = [m |-> [NewModel(VocabSize, seq_len, hc[1], hc[2], NumLayers)
                            EXCEPT !.training = tr],
                 idx |-> IF id = 0 THEN BatchRows(s, T) ELSE WithId(BatchRows(s, T), id),
                 targets |-> IF tg THEN BatchTargets(s, T) ELSE <<>>,
                 s |-> s]
    /\ fout = <<>>

\* forward returns r, or raises r.err.
ForwardReturn(r) ==
    /\ fout' = r
    /\ fpc' = IF r.err = "none" THEN "returned" ELSE "raised"

\* logits, loss = model(idx, targets)
ForwardCall ==
    /\ fpc = "call"
    /\ ForwardReturn(Forward(fin.m, fin.idx, fin.targets, fin.s))
    /\ UNCHANGED <<fin, sessionvars, headvars, causalvars, mhavars, batchvars, cellvars>>

SpecForward == ForwardInit /\ [][ForwardCall]_vars

\* ---- the forward pass on two inputs side by side ----
\* The output of every layer of a model in evaluation mode on the tokens ids:
\* the first head, the attention layer, the feed-forward layer and the block
\* of layer 1 on the embedded input x, and the logits of the whole pass.
LayerOutputs(m, ids, x) ==
    [x |-> x,
     head |-> HeadForward(x, m.d_model, m.head_size, m.tril_n, 1, 1, m.wsel,
                          m.training, 0, 0),
     mha |-> MultiHeadAttention(x, m, 1, 0, 0),
     ffwd |-> FeedFoward(x, m, 1, 0, 0),
     block |-> Block(x, m, 1, 0, 0),
     logits |-> Logits(m, ids, 0)]

\* A model whose heads fit its width is put in evaluation mode, under either
\* version of its weights; a and b are two inputs of the same length.
CausalInit ==
    /\ SessionRest(MaxCausalT)
    /\ HeadIdle
    /\ FwdIdle /\ MhaIdle /\ BatchIdle /\ CellsIdle
    /\ cpc = "call"
    /\ \E hc \in {c \in HeadConfigs : c[1] % c[2] = 0}, w \in 0..1,
          T \in 1..MaxCausalT :
          \E a \in [1..T -> SeedIds], b \in [1..T -> SeedIds] :
              cin = [m |-> [NewModel(VocabSize, seq_len, hc[1], hc[2], NumLayers)
                               EXCEPT !.training = FALSE, !.wsel = w],
                     a |-> a, b |-> b]
    /\ cout = <<>>

\* model.eval(); model(a); model(b)
CausalCall ==
    /\ cpc = "call"
    /\ cout' = [a |-> LayerOutputs(cin.m, cin.a, Embed(cin.m, cin.a)),
                b |-> LayerOutputs(cin.m, cin.b, Embed(cin.m, cin.b))]
    /\ cpc' = "returned"
    /\ UNCHANGED <<cin, sessionvars, headvars, fwdvars, mhavars, batchvars, cellvars>>

SpecCausal == CausalInit /\ [][CausalCall]_vars

\* ---- MultiHeadAttention with its heads evaluated in any order ----
\* As SliceStart, had head h's slice begun one column early: at the last
\* column of the head before it.
SliceStartOverlap(h, hs) == IF h = 1 THEN 1 ELSE (h - 1) * hs

\* torch.cat(..., dim=-1) puts head h's output at columns
\* [h*head_size, (h+1)*head_size) of the result (h from 0; SliceStart is the
\* first of them, counted from 1 for h from 1).
SliceStart(h, hs) == (h - 1) * hs + 1
SliceOf(h, hs) == SliceStart(h, hs)..(SliceStart(h, hs) + hs - 1)

\* The buffer buf with head h's output out copied into h's slice.
WriteSlice(buf, out, h, hs) ==
    Mat([i \in 1..Len(buf) |->
        [c \in 1..Len(buf[i]) |->
            IF c \in SliceOf(h, hs) THEN out[i][c - SliceStart(h, hs) + 1]
            ELSE buf[i][c]]])

\* The heads evaluated so far.
Evaluated == {morder[k] : k \in 1..Len(morder)}

\* The attention layer of a model whose heads fit its width is called, in
\* either mode, on the normalised embedding of up to seq_len tokens; the
\* result of torch.cat is allocated, no head evaluated yet.
MhaInit ==
    /\ SessionRest(MaxSeqLen)
    /\ HeadIdle
    /\ FwdIdle /\ CausalIdle /\ BatchIdle /\ CellsIdle
    /\ mpc = "heads"
    /\ \E hc \in {c \in HeadConfigs : c[1] % c[2] = 0}, w \in 0..1, tr \in BOOLEAN,
          s \in GenSeeds, ids \in SeqsUpTo(0..(VocabSize - 1), MaxSeqLen) :
          /\ ~tr => s = 0
          /\ min = [m |-> [NewModel(VocabSize, seq_len, hc[1], hc[2], NumLayers)
                               EXCEPT !.training = tr, !.wsel = w],
                    x |-> LayerNorm(Embed([NewModel(VocabSize, seq_len, hc[1], hc[2],
                                                    NumLayers) EXCEPT !.wsel = w], ids),
                                    hc[1]),
                    s |-> s]
          /\ mbuf = Mat([i \in 1..Len(ids) |-> [c \in 1..hc[1] |-> 0]])
          /\ mgen = s
    /\ morder = <<>>

\* h(x) for one head h not yet evaluated: its output goes into its slice of
\* the result; in training mode its dropout draws from the shared generator.
HeadEval(h) ==
    /\ mpc = "heads"
    /\ h \in 1..min.m.n_head /\ h \notin Evaluated
    /\ mbuf' = WriteSlice(mbuf,
                          HeadForward(min.x, min.m.d_model, min.m.head_size,
                                      min.m.tril_n, 1, h, min.m.wsel,
                                      min.m.training, mgen, 0),
                          h, min.m.head_size)
    /\ morder' = Append(morder, h)
    /\ mgen' = IF min.m.training THEN Rnd(mgen, HeadDraws(Len(min.x))) ELSE mgen
    /\ UNCHANGED <<mpc, min, sessionvars, headvars, fwdvars, causalvars, batchvars,
                   cellvars>>

\* Every head has been evaluated: torch.cat returns.
HeadsJoin ==
    /\ mpc = "heads"
    /\ Evaluated = 1..min.m.n_head
    /\ mpc' = "joined"
    /\ UNCHANGED <<min, morder, mbuf, mgen, sessionvars, headvars, fwdvars,
                   causalvars, batchvars, cellvars>>

MhaNext == (\E h \in 1..min.m.n_head : HeadEval(h)) \/ HeadsJoin

SpecMha == MhaInit /\ [][MhaNext]_vars

\* ---- get_batch and the forward pass of one training step ----
\* get_batch is called for either split, under a global seq_len that the
\* smaller split may or may not be longer than, the generator in any state;
\* the model was built under the same seq_len.
BatchInit ==
    /\ SessionRest(MaxSeqLen)
    /\ HeadIdle
    /\ FwdIdle /\ CausalIdle /\ MhaIdle /\ CellsIdle
    /\ bpc = "call"
    /\ \E k \in DOMAIN Splits, sl \in 1..(MaxSeqLen + 2), s \in 0..(RngMod - 1) :
          bin = [split |-> Splits[k], sl |-> sl, s |-> s,
                 m |-> NewModel(VocabSize, sl, HeadWidth, 1, NumLayers)]
    /\ bout = <<>>

\* get_batch returns b, or raises b.err.
BatchReturn(b) ==
    /\ bout' = [batch |-> b, out |-> <<>>]
    /\ bpc' = IF b.err = "none" THEN "returned" ELSE "raised"

\* xb, yb = get_batch(split)
BatchCall ==
    /\ bpc = "call"
    /\ BatchReturn(GetBatch(bin.split, bin.sl, bin.s))
    /\ UNCHANGED <<bin, sessionvars, headvars, fwdvars, causalvars, mhavars, cellvars>>

\* logits, loss = model(xb, yb)
BatchForward ==
    /\ bpc = "returned"
    /\ bout' = [bout EXCEPT !.out = Forward(bin.m, <<bout.batch.x>>, <<bout.batch.y>>,
                                            RngNext(bin.s))]
    /\ bpc' = "forwarded"
    /\ UNCHANGED <<bin, sessionvars, headvars, fwdvars, causalvars, mhavars, cellvars>>

BatchNext == BatchCall \/ BatchForward

SpecBatch == BatchInit /\ [][BatchNext]_vars

\* ---- the notebook's code cells run in document order ----
\* The cells that assign or read the globals, in the order of the document.
CellOrder == <<"config", "demo", "mask", "softmax", "aggregate", "hyper",
               "build", "loop", "generate">>

\* Cell c is the next one of the document.
IsNext(c) == Len(cell) < Len(CellOrder) /\ CellOrder[Len(cell) + 1] = c

\* Cell c has been run.
Ran(c) == \E k \in 1..Len(cell) : cell[k] = c

\* A fresh kernel: no global is assigned (0), no cell has been run.
CellsInit ==
    /\ vocab_size = 0 /\ seq_len = 0 /\ d_model = 0 /\ n_head = 0 /\ n_layer = 0
    /\ SessionIdle
    /\ HeadIdle
    /\ FwdIdle /\ CausalIdle /\ MhaIdle /\ BatchIdle
    /\ cell = <<>>
    /\ demo = [x |-> <<>>, wei |-> <<>>, out |-> <<>>]

\* vocab_size = tokenizer_word.get_vocab_size(); seq_len = 128; d_model = 512
CellConfig ==
    /\ IsNext("config")
    /\ vocab_size' = VocabSize
    /\ seq_len' = CfgSeqLen
    /\ d_model' = CfgDModel
    /\ cell' = Append(cell, "config")
    /\ UNCHANGED <<n_head, n_layer, model, pc, iter, est, gen, fwd, err, genvars,
                   headvars, fwdvars, causalvars, mhavars, batchvars, demo>>

\* seq_len,d_model = 4,2; x = torch.randn(seq_len,d_model)
CellDemo ==
    /\ IsNext("demo")
    /\ seq_len' = DemoSeqLen
    /\ d_model' = HeadWidth
    /\ \E x \in [1..DemoSeqLen -> HeadRows] : demo' = [demo EXCEPT !.x = x]
    /\ cell' = Append(cell, "demo")
    /\ UNCHANGED <<vocab_size, n_head, n_layer, model, pc, iter, est, gen, fwd, err,
                   genvars, headvars, fwdvars, causalvars, mhavars, batchvars>>

\* tril = torch.tril(torch.ones(seq_len, seq_len)); wei = torch.zeros(...);
\* wei = wei.masked_fill(tril == 0, float('-inf'))
CellMask ==
    /\ IsNext("mask")
    /\ demo' = [demo EXCEPT !.wei =
                    MaskedFill(Mat([i \in 1..seq_len |-> [j \in 1..seq_len |-> 0]]),
                               Tril(seq_len))]
    /\ cell' = Append(cell, "mask")
    /\ UNCHANGED <<sessionvars, headvars, fwdvars, causalvars, mhavars, batchvars>>

\* wei = F.softmax(wei, dim=-1)
CellSoftmax ==
    /\ IsNext("softmax")
    /\ demo' = [demo EXCEPT !.wei = Softmax(demo.wei)]
    /\ cell' = Append(cell, "softmax")
    /\ UNCHANGED <<sessionvars, headvars, fwdvars, causalvars, mhavars, batchvars>>

\* wei@x
CellAggregate ==
    /\ IsNext("aggregate")
    /\ demo' = [demo EXCEPT !.out = Aggregate(demo.wei, demo.x, d_model)]
    /\ cell' = Append(cell, "aggregate")
    /\ UNCHANGED <<sessionvars, headvars, fwdvars, causalvars, mhavars, batchvars>>

\* n_head = 6; n_layer = 8 (and the class TextGenerationModel is defined)
CellHyper ==
    /\ IsNext("hyper")
    /\ n_head' = NHead
    /\ n_layer' = NLayer
    /\ cell' = Append(cell, "hyper")
    /\ UNCHANGED <<vocab_size, seq_len, d_model, model, pc, iter, est, gen, fwd, err,
                   genvars, headvars, fwdvars, causalvars, mhavars, batchvars, demo>>

\* model = TextGenerationModel(); m = model.to(device): the constructors read
\* the globals as they are now.
CellBuild ==
    /\ IsNext("build")
    /\ model' = NewModel(vocab_size, seq_len, d_model, n_head, n_layer)
    /\ pc' = "loop"
    /\ cell' = Append(cell, "build")
    /\ UNCHANGED <<globals, iter, est, gen, fwd, err, genvars, headvars, fwdvars,
                   causalvars, mhavars, batchvars, demo>>

\* The exception the first forward pass of the training loop ends in, or "none".
LoopError(b) == IF b.err # "none" THEN b.err ELSE ForwardError(model, b.x)

\* The effect of the rest of the training cell, given the exception e of its
\* first forward pass.
LoopOutcome(e) ==
    /\ pc' = IF e # "none" THEN "raised" ELSE "generate"
    /\ err' = e

\* for iter in range(max_iters): ... estimate_loss() ... (the rest of the
\* training cell, up to its first forward pass)
CellLoop ==
    /\ IsNext("loop")
    /\ LoopOutcome(LoopError(GetBatch("train", seq_len, gen)))
    /\ cell' = Append(cell, "loop")
    /\ UNCHANGED <<globals, model, iter, est, gen, fwd, genvars, headvars, fwdvars,
                   causalvars, mhavars, batchvars, demo>>

\* context = torch.zeros((1, 1)); context.fill_(2); m.generate(context, ...):
\* the first pass of generate's loop, idx_cond = idx[:, -seq_len:] and the
\* forward pass.
CellGenerate ==
    /\ IsNext("generate")
    /\ seed' = <<SosId>>
    /\ max_new_tokens' = MaxNewTokens
    /\ idx' = [r \in Runs |-> <<SosId>>]
    /\ idx_cond' = [r \in Runs |-> LastN(<<SosId>>, seq_len)]
    /\ fwd' = [caller |-> "generate", T |-> Len(LastN(<<SosId>>, seq_len)),
               training |-> model.training, targets |-> FALSE]
    /\ err' = ForwardError(model, LastN(<<SosId>>, seq_len))
    /\ pc' = IF ForwardError(model, LastN(<<SosId>>, seq_len)) # "none"
             THEN "raised" ELSE "gen"
    /\ cell' = Append(cell, "generate")
    /\ UNCHANGED <<globals, model, iter, est, gen, iters, rseed, rng, draw, headvars,
                   fwdvars, causalvars, mhavars, batchvars, demo>>

CellsNext ==
    \/ CellConfig
    \/ CellDemo
    \/ CellMask
    \/ CellSoftmax
    \/ CellAggregate
    \/ CellHyper
    \/ CellBuild
    \/ CellLoop
    \/ CellGenerate

SpecCells == CellsInit /\ [][CellsNext]_vars

\* ---- the claims ----
Min(a, b) == IF a < b THEN a ELSE b

InLoop == pc \in {"gen", "done"}

\* C1: generate on a seed of length L with max_new_tokens = k returns a
\* sequence of length exactly L + k; after the i-th iteration of its loop
\* the working sequence has length exactly L + i.
Thm_C1 ==
    /\ InLoop => \A r \in Runs : Len(idx[r]) = Len(seed) + iters
    /\ pc = "done" => \A r \in Runs : Len(idx[r]) = Len(seed) + max_new_tokens

Wit_C1 ==
    /\ pc = "done" /\ Len(seed) = 2 /\ max_new_tokens = 2
    /\ Len(idx[1]) = 4

\* C2: in every iteration of generate the sequence handed to the forward
\* pass is the last min(current length, seq_len) ids of the current
\* sequence, so the forward pass never sees more than seq_len ids and the
\* position lookup never goes out of bounds.
Thm_C2 ==
    [][(pc = "gen" /\ iters < max_new_tokens) =>
          \A r \in Runs :
             LET n == Min(Len(idx[r]), seq_len) IN
             /\ Len(idx_cond'[r]) = n
             /\ \A p \in 1..n : idx_cond'[r][p] = idx[r][Len(idx[r]) - n + p]
             /\ fwd'.caller = "generate" /\ fwd'.T = n
             /\ fwd'.T <= seq_len /\ fwd'.T <= model.pos_rows
             /\ err' # "IndexError"]_vars

Wit_C2 ==
    /\ InLoop /\ iters >= 1 /\ fwd.caller = "generate"
    /\ Len(idx[1]) - 1 > seq_len
    /\ Len(idx_cond[1]) = seq_len
    /\ fwd.T = seq_len

\* The scores of the head are all equal: no projection width, or a zero input.
ZeroScores == hin.hs = 0 \/ \A i \in 1..Len(hin.x) : hin.x[i] = <<0, 0>>

NonZeros(row) == {j \in 1..Len(row) : row[j][1] # 0}

\* C3: the normalised weight matrix of Head.forward (mask, then softmax) is
\* zero at every column j > i of row i, and every row sums to 1; when the
\* scores are all equal row i is uniformly 1/(i+1) over columns 0..i, so for
\* T = 4 the first row has one nonzero entry and the last has four.
Thm_C3 ==
    hpc = "returned" =>
        LET T == Len(hin.x) IN
        /\ Len(hwei) = T
        /\ \A i \in 1..T :
              /\ Len(hwei[i]) = T
              /\ \A j \in 1..T : hwei[i][j][1] >= 0 /\ hwei[i][j][2] > 0
              /\ \A j \in 1..T : j > i => hwei[i][j][1] = 0
              /\ RatSum(hwei[i]) = <<1, 1>>
              /\ ZeroScores => \A j \in 1..i : hwei[i][j] = <<1, i>>
        /\ (T = 4 /\ ZeroScores) =>
              Cardinality(NonZeros(hwei[1])) = 1 /\ Cardinality(NonZeros(hwei[4])) = 4

Wit_C3 ==
    /\ hpc = "returned" /\ Len(hin.x) = 4 /\ ~ZeroScores
    /\ NonZeros(hwei[1]) = {1}
    /\ NonZeros(hwei[4]) = {1, 2, 3, 4}
    /\ hwei[4][1] # hwei[4][4]

\* C4: generate ends after exactly max_new_tokens iterations and never
\* stops early: an [EOS] that is sampled is appended like any other id and
\* the remaining iterations still run.
Thm_C4 ==
    /\ [](pc = "done" => iters = max_new_tokens)
    /\ [][(pc = "gen" /\ iters < max_new_tokens) =>
             /\ pc' = "gen" /\ iters' = iters + 1
             /\ \A r \in Runs : Len(idx'[r]) = Len(idx[r]) + 1]_vars
    /\ (pc = "gen") ~> (pc = "done" /\ iters = max_new_tokens)

Wit_C4 ==
    /\ pc = "done" /\ max_new_tokens = 2
    /\ idx[1][Len(seed) + 1] = EosId
    /\ Len(idx[1]) = Len(seed) + 2

\* Two runs from the same generator state produce the same sequence.
SameSourceSameOutput ==
    [](pc = "done" /\ rseed[1] = rseed[2] => idx[1] = idx[2])

\* Two runs that have not diverged and whose sampling steps draw the same
\* value do not diverge in that iteration.
SamplingOnly ==
    [][(pc = "gen" /\ iters' = iters + 1 /\ idx[1] = idx[2] /\ draw'[1] = draw'[2])
          => idx'[1] = idx'[2]]_vars

\* C5: two runs of generate on the same weights, seed sequence and
\* max_new_tokens with the same seeded random source produce the same
\* sequence, and the sampling step is the only place where two runs may
\* diverge.
Cex_C5 == SameSourceSameOutput /\ SamplingOnly

\* C6: with every id of the seed in [0, vocab_size), every id of the
\* sequence is in [0, vocab_size) at every point of generate and in its
\* result.
Thm_C6 ==
    (InLoop /\ \A p \in 1..Len(seed) : seed[p] \in 0..(vocab_size - 1)) =>
        \A r \in Runs : \A p \in 1..Len(idx[r]) : idx[r][p] \in 0..(vocab_size - 1)

Wit_C6 ==
    /\ pc = "done" /\ seed = <<SosId>> /\ max_new_tokens = 2
    /\ Len(idx[1]) = 3
    /\ \A p \in 1..3 : idx[1][p] \in 0..(vocab_size - 1)
    /\ idx[1][3] = vocab_size - 1

PrefixOf(a, b) == Len(a) <= Len(b) /\ SubSeq(b, 1, Len(a)) = a

\* C7: generate only appends: every iteration leaves the previous sequence
\* an unchanged prefix of the new one and adds exactly one id at its end, so
\* the seed is a prefix of the result and ids outside the context window stay.
Thm_C7 ==
    /\ [](InLoop => \A r \in Runs : PrefixOf(seed, idx[r]))
    /\ [][(pc = "gen" /\ idx' # idx) =>
             \A r \in Runs : Len(idx'[r]) = Len(idx[r]) + 1 /\ PrefixOf(idx[r], idx'[r])]_vars

Wit_C7 ==
    /\ pc = "done" /\ Len(idx[1]) > seq_len + 1
    /\ Len(seed) = 2 /\ seed[1] # seed[2]
    /\ PrefixOf(seed, idx[1])

\* C8: for every configuration a Block is constructed with,
\* n_head * head_size = d_model, so the concatenated heads have the width
\* d_model that proj takes.
Cex_C8 ==
    model.built => /\ model.n_head * model.head_size = model.d_model
                   /\ err # "RuntimeError"

\* C9: constructing the model with a d_model that n_head does not divide
\* raises at construction: no model object is produced, and the error is not
\* left to the first forward pass.
Cex_C9 ==
    d_model % n_head # 0 => ~model.built /\ pc \in {"new", "raised"}

\* C10: every forward pass issued by generate, as the notebook calls it
\* after the training loop, and every forward pass inside estimate_loss runs
\* with the model in evaluation mode, where dropout is the identity.
Cex_C10 ==
    fwd.caller \in {"generate", "estimate_loss"} => ~fwd.training

\* The generator state row b of the call's batch starts from.
RowState(b) == Rnd(fin.s, (b - 1) * ForwardDraws(fin.m, Len(fin.idx[b])))

\* Row b*T + t of an (N, ...) tensor, b and t counted from 1.
FlatRow(b, t) == (b - 1) * Len(fin.idx[1]) + t

\* The mean, over every (b, t), of the loss of flattened row b*T + t against
\* target (b, t).
PairedLoss ==
    SumSeq(Vec([b \in 1..Len(fin.idx) |->
        SumSeq(Vec([t \in 1..Len(fin.idx[1]) |->
            Nll(fout.logits[FlatRow(b, t)], fin.targets[b][t])]))]))
        \div (Len(fin.idx) * Len(fin.idx[1]))

\* C11: forward returns loss None exactly when targets is None; without
\* targets the logits are (B, T, vocab_size); with targets they are
\* (B*T, vocab_size), row b*T + t holding the logits of position (b, t), and
\* the loss scores row b*T + t against target (b, t).
Thm_C11 ==
    fpc = "returned" =>
        /\ (fout.loss = <<>>) <=> (fin.targets = <<>>)
        /\ fin.targets = <<>> =>
              /\ Len(fout.logits) = Len(fin.idx)
              /\ \A b \in 1..Len(fin.idx) :
                    /\ Len(fout.logits[b]) = Len(fin.idx[b])
                    /\ \A t \in 1..Len(fin.idx[b]) :
                          Len(fout.logits[b][t]) = fin.m.vocab
                    /\ fout.logits[b] = Logits(fin.m, fin.idx[b], RowState(b))
        /\ fin.targets # <<>> =>
              /\ Len(fout.logits) = Len(fin.idx) * Len(fin.idx[1])
              /\ \A b \in 1..Len(fin.idx) : \A t \in 1..Len(fin.idx[1]) :
                    /\ Len(fout.logits[FlatRow(b, t)]) = fin.m.vocab
                    /\ fout.logits[FlatRow(b, t)] =
                          Logits(fin.m, fin.idx[b], RowState(b))[t]
              /\ fout.loss = <<PairedLoss>>

\* A call with targets returned: two rows of two positions whose targets
\* differ across the diagonal, so the pairing of rows with targets matters.
Wit_C11 ==
    /\ fpc = "returned"
    /\ fin.targets # <<>>
    /\ Len(fin.idx) = 2 /\ Len(fin.idx[1]) = 2
    /\ fin.targets[1][2] # fin.targets[2][1]
    /\ fout.loss # <<>>
    /\ Len(fout.logits) = 4

\* The call's batch has more positions than the position table has rows.
TooLong == \E b \in 1..Len(fin.idx) : Len(fin.idx[b]) > seq_len

\* The call's batch holds an id outside [0, vocab_size).
IdOutside ==
    \E b \in 1..Len(fin.idx) : \E t \in 1..Len(fin.idx[b]) :
        fin.idx[b][t] < 0 \/ fin.idx[b][t] >= vocab_size

\* C12: a direct call of forward with T > seq_len, or with a token id
\* outside [0, vocab_size), ends in an index error raised to the caller; it
\* never returns logits.
Thm_C12 ==
    (fpc # "call" /\ (TooLong \/ IdOutside)) =>
        /\ fpc = "raised"
        /\ fout.err = "IndexError"
        /\ DOMAIN fout = {"err"}

\* A call with T = seq_len + 1 valid ids raised; the model's heads fit its
\* width, so nothing else is wrong with the call.
Wit_C12 ==
    /\ fpc = "raised"
    /\ TooLong /\ ~IdOutside
    /\ fin.m.n_head * fin.m.head_size = fin.m.d_model
    /\ fout.err = "IndexError"

\* The head's raw scores and its value projection V, recomputed from the
\* call's arguments.
HeadScores ==
    Scores(Linear(hin.x, HeadWidth, hin.hs, 112, hin.w, FALSE),
           Linear(hin.x, HeadWidth, hin.hs, 111, hin.w, FALSE),
           hin.hs, ScaleDim(HeadWidth, hin.hs))
HeadV == Linear(hin.x, HeadWidth, hin.hs, 113, hin.w, FALSE)

\* The facts of C13 that hold in either mode: the scores are 1x1, the mask
\* leaves them as they are, the weight is exactly 1.
SingleTokenWeight ==
    /\ Len(HeadScores) = 1 /\ Len(HeadScores[1]) = 1
    /\ MaskedFill(HeadScores, Tril(hin.tril_n)) = HeadScores
    /\ hwei = << << <<1, 1>> >> >>

\* C13 as stated: for T = 1 the score matrix is 1x1, the mask changes
\* nothing, the weight is exactly 1 and Head.forward returns exactly V[0],
\* in whichever mode the head is.
Cex_C13 ==
    (hpc = "returned" /\ Len(hin.x) = 1) =>
        SingleTokenWeight /\ hout = HeadV

\* C13, amended: for T = 1 the score matrix is 1x1, the mask changes
\* nothing and the normalised weight is exactly 1 in either mode;
\* Head.forward returns exactly V[0] in evaluation mode (in training mode
\* dropout zeroes the weight or scales it by 1/(1 - dropout)).
Thm_C13 ==
    (hpc = "returned" /\ Len(hin.x) = 1) =>
        /\ SingleTokenWeight
        /\ ~hin.training => hout = HeadV /\ Len(hout) = 1

\* A head in evaluation mode returned the nonzero value projection of its
\* single token.
Wit_C13 ==
    /\ hpc = "returned" /\ Len(hin.x) = 1 /\ ~hin.training
    /\ hin.hs = HeadWidth
    /\ hout = HeadV
    /\ \E c \in 1..hin.hs : hout[1][c] # 0

\* C14: Head.forward scales the raw scores by head_size^(-0.5), head_size
\* being the width of the head's Q and K projections, not the width of its
\* input x.
Cex_C14 ==
    (hpc = "returned" /\ hin.hs >= 1) =>
        /\ Len(hin.x[1]) = HeadWidth
        /\ ScaleDim(Len(hin.x[1]), hin.hs) = hin.hs

\* Sequences (or matrices) p and q agree on positions 1..i.
AgreeUpTo(p, q, i) == \A j \in 1..i : p[j] = q[j]

\* C15: in evaluation mode the forward pass is causal end to end: when two
\* inputs of the same length T <= seq_len agree on positions 0..i, the
\* outputs of Head, MultiHeadAttention, FeedFoward, Block and the logits at
\* position i are identical; FeedFoward's row i depends on row i alone.
Thm_C15 ==
    cpc = "returned" =>
        \A i \in 1..Len(cin.a) :
            /\ AgreeUpTo(cout.a.x, cout.b.x, i) =>
                  /\ cout.a.head[i] = cout.b.head[i]
                  /\ cout.a.mha[i] = cout.b.mha[i]
                  /\ cout.a.ffwd[i] = cout.b.ffwd[i]
                  /\ cout.a.block[i] = cout.b.block[i]
            /\ AgreeUpTo(cin.a, cin.b, i) => cout.a.logits[i] = cout.b.logits[i]
            /\ cout.a.x[i] = cout.b.x[i] => cout.a.ffwd[i] = cout.b.ffwd[i]

\* Two inputs of three tokens that part at the last one: their outputs agree
\* at the second position and differ at the third, where the attention layer
\* has mixed the positions before it.
Wit_C15 ==
    /\ cpc = "returned" /\ Len(cin.a) = 3
    /\ AgreeUpTo(cin.a, cin.b, 2) /\ cin.a[3] # cin.b[3]
    /\ cin.a[1] # cin.a[2]
    /\ cout.a.logits[2] = cout.b.logits[2]
    /\ cout.a.block[2] = cout.b.block[2]
    /\ cout.a.logits[3] # cout.b.logits[3]
    /\ cout.a.head[3] # cout.b.head[3]

\* The concatenation the source computes, its heads taken in list order.
CatInOrder ==
    CatHeads(HeadOutputs(min.x, min.m, 1, min.s, 0), min.m.n_head, Len(min.x))

\* Columns cols of the buffers p and q hold the same values.
SameColumns(p, q, cols) ==
    \A i \in 1..Len(p) : \A c \in cols : p[i][c] = q[i][c]

\* C16: each head writes only its own slice [h*head_size, (h+1)*head_size)
\* of the concatenated output and no head's slice is written by another
\* head; at inference the concatenated result is the same for every order
\* in which the heads are evaluated (it is the one the list order gives).
Thm_C16 ==
    /\ [](mpc = "joined" /\ ~min.m.training => mbuf = CatInOrder)
    /\ [](mpc \in {"heads", "joined"} /\ ~min.m.training =>
             \A h \in Evaluated :
                 SameColumns(mbuf, CatInOrder, SliceOf(h, min.m.head_size)))
    /\ [][mpc = "heads" /\ Len(morder') = Len(morder) + 1 =>
             SameColumns(mbuf', mbuf,
                         (1..min.m.d_model)
                             \ SliceOf(morder'[Len(morder')], min.m.head_size))]_vars

\* Two heads were evaluated in the reverse of the list order at inference,
\* and their slices hold different values.
Wit_C16 ==
    /\ mpc = "joined" /\ ~min.m.training
    /\ morder = <<2, 1>>
    /\ Len(min.x) = 2
    /\ mbuf = CatInOrder
    /\ mbuf[2][1] # mbuf[2][2]

\* The data get_batch cut its windows from.
BatchData == SplitData(bin.split)

\* C17: every start index i get_batch draws satisfies 0 <= i < len(data) -
\* seq_len; the windows x = data[i : i+seq_len] and y = data[i+1 :
\* i+seq_len+1] lie inside data and have length seq_len, y[t] = data[i+t+1]
\* being the token after x[t]; the batch the training step hands to the
\* forward pass has T = seq_len.
Thm_C17 ==
    /\ bpc \in {"returned", "forwarded"} =>
          /\ 0 <= bout.batch.i /\ bout.batch.i < Len(BatchData) - bin.sl
          /\ bout.batch.i + bin.sl + 1 <= Len(BatchData)
          /\ Len(bout.batch.x) = bin.sl /\ Len(bout.batch.y) = bin.sl
          /\ \A t \in 0..(bin.sl - 1) :
                /\ bout.batch.x[t + 1] = BatchData[bout.batch.i + t + 1]
                /\ bout.batch.y[t + 1] = BatchData[bout.batch.i + t + 2]
    /\ bpc = "forwarded" =>
          /\ bout.out.err = "none"
          /\ Len(bout.out.logits) = bin.sl
          /\ bout.out.loss # <<>>

\* The last start index of the validation split was drawn: the target window
\* ends at the last token of the data, and the forward pass took the batch.
Wit_C17 ==
    /\ bpc = "forwarded" /\ bin.split = "val" /\ bin.sl = 2
    /\ bout.batch.i = Len(BatchData) - bin.sl - 1
    /\ bout.batch.y[bin.sl] = BatchData[Len(BatchData)]
    /\ bout.batch.x # bout.batch.y

\* C18: with the cells run in document order, the globals seen at model
\* construction and at generation are those of the configuration cell
\* (seq_len = 128, d_model = 512): no cell after it changes them, and the
\* mask buffer, the positional table and generate's truncation window all
\* use the context length 128.
Cex_C18 ==
    /\ Ran("config") => seq_len = CfgSeqLen /\ d_model = CfgDModel
    /\ model.built =>
          /\ model.pos_rows = CfgSeqLen
          /\ model.tril_n = CfgSeqLen
          /\ model.d_model = CfgDModel
    /\ Ran("generate") => idx_cond[1] = LastN(seed, CfgSeqLen) /\ seq_len = CfgSeqLen

====
